---- MODULE Spec2Model ----
(***************************************************************************)
(* Library catalogue service: Book and Loan stores and the borrow/return   *)
(* transition, as implemented by the SQLAlchemy iterations (v3, v5, v6:    *)
(* one session commit per request, SQLite integer primary keys) and by the *)
(* MongoEngine iteration (v7: one store call per save()/delete()).         *)
(***************************************************************************)
EXTENDS Integers, FiniteSets, Sequences, TLC

\* ------------------------------------------------------------------ bounds
MaxBooks == 2          \* live Book rows at any time
MaxLoans == 2          \* live Loan rows at any time
MaxId == 2             \* largest identifier a table/collection hands out
NReq == 2              \* concurrent request slots
MaxTime == 1           \* last instant of the clock

\* ------------------------------------------------------------ input domains
None == "<None>"                       \* a JSON field that is absent
Text == {"", "A"}                      \* title strings
Authors == {"A"}                       \* author strings
Names == {"", "Alice", "Bob"}          \* borrower_name strings
NoneId == -1                           \* book_id absent from the JSON body
Ids == 0 .. (MaxId + 1)                \* identifiers a caller may send
BadId == -2                            \* a string that is no integer / no ObjectId ("abc")
AnyIds == Ids \cup {BadId}
Versions == {"v3", "v7"}
NoFlag == [given |-> FALSE, value |-> FALSE]   \* body without a status field
BodyFlags == {NoFlag} \cup {[given |-> TRUE, value |-> v] : v \in BOOLEAN}
Reqs == 1 .. NReq

VARIABLES
    version,    \* which iteration of the service is running
    books,      \* Book table/collection: id -> [title, author, is_borrowed]
                \* (package app: id -> [title, author, available])
    loans,      \* Loan table/collection: id -> [book_id, borrower_name, borrowed_at]
    bookSeq,    \* v7: ObjectIds generated so far for books
    loanSeq,    \* v7: ObjectIds generated so far for loans
    last,       \* the last completed request and its response
    returned,   \* loan ids for which a return has answered 200
    lent,       \* the Loans borrow requests have created and no return has removed
                \* since, as [id, book_id]
    req,        \* in-flight requests of the interleaved specification
    users,      \* User table/collection: rows [username, password_hash] in
                \* order of insertion
    now         \* the clock datetime.utcnow() reads

vars == <<version, books, loans, bookSeq, loanSeq, last, returned, lent, req, users, now>>

\* ---------------------------------------------------------------- helpers
Max(S) == CHOOSE x \in S : \A y \in S : y <= x

\* Python truthiness of a JSON string field and of a JSON id field
Falsy(x) == x \in {None, ""}
FalsyId(i) == i \in {NoneId, 0}

\* Row added to / removed from a table
Put(tbl, k, row) == [i \in DOMAIN tbl \cup {k} |-> IF i = k THEN row ELSE tbl[i]]

\* faulty variant: the delete is issued without its filter
Drop_all(tbl, ks) == << >>

Drop(tbl, ks) == [i \in DOMAIN tbl \ ks |-> tbl[i]]

\* faulty variant: the largest key in use is handed out again
NewId_taken(tbl, seq) == IF DOMAIN tbl = {} THEN 1 ELSE Max(DOMAIN tbl)

\* Primary key given to an inserted row.  SQLAlchemy versions: an INTEGER
\* PRIMARY KEY column on SQLite (no AUTOINCREMENT) gets max(rowid)+1.
\* v7: a fresh ObjectId, never handed out twice.
NewId(tbl, seq) ==
    IF version # "v7"
    THEN IF DOMAIN tbl = {} THEN 1 ELSE Max(DOMAIN tbl) + 1
    ELSE seq + 1

\* borrow_book: `if not book_id or not borrower_name`
RequiredMissing(book_id, borrower_name) == FalsyId(book_id) \/ Falsy(borrower_name)

\* faulty variant: the availability test is dropped
IsBorrowed_never(book) == FALSE

\* borrow_book: `if book.is_borrowed`
IsBorrowed(book) == book.is_borrowed

\* faulty variant: the flag is not set
MarkBorrowed_skip(bks, b) == bks

\* borrow_book: `book.is_borrowed = True`
MarkBorrowed(bks, b) == [bks EXCEPT ![b].is_borrowed = TRUE]

\* faulty variant: the flag is not cleared
ClearBorrowed_skip(bks, b) == bks

\* faulty variant: the flag is cleared on every book
ClearBorrowed_all(bks, b) == [i \in DOMAIN bks |-> [bks[i] EXCEPT !.is_borrowed = FALSE]]

\* return_book: `book.is_borrowed = False`
ClearBorrowed(bks, b) == [bks EXCEPT ![b].is_borrowed = FALSE]

\* `Book.query.get(id)` / `Book.objects(id=id).first()` returns None
Missing(tbl, id) == id \notin DOMAIN tbl

\* v7: `objects(id=...)` converts the id with ObjectIdField.to_mongo, which
\* raises ValidationError for a string that is no ObjectId; no handler
\* catches it.  SQLAlchemy versions: the <int:...> route does not match
\* (404) and a non-integer key in a JSON body matches no row.
QueryRaises(id) == version = "v7" /\ id = BadId

\* borrow_book: `Loan(book_id=book_id, borrower_name=borrower_name)`;
\* borrowed_at takes the column default, datetime.utcnow, at the insert
NewLoan(book_id, borrower_name, at) ==
    [book_id |-> book_id, borrower_name |-> borrower_name, borrowed_at |-> at]

\* Loans that reference a book
LoansOf(lns, b) == {l \in DOMAIN lns : lns[l].book_id = b}

Idle == [op |-> "idle", pc |-> "idle", book_id |-> NoneId, borrower_name |-> None,
         loan_id |-> NoneId, flag |-> FALSE, status |-> 0]

Response(op, status, msg, book_id, loan_id) ==
    [op |-> op, status |-> status, msg |-> msg, book_id |-> book_id, loan_id |-> loan_id]

\* create_all() on an empty database; no request served yet
InitStore ==
    /\ books = << >>
    /\ loans = << >>
    /\ bookSeq = 0
    /\ loanSeq = 0
    /\ last = Response("none", 0, "", NoneId, NoneId)
    /\ returned = {}
    /\ lent = {}
    /\ req = [r \in Reqs |-> Idle]
    /\ users = << >>
    /\ now = 0

Init ==
    /\ version \in Versions
    /\ InitStore

\* The model's bounds on inserts (k: inserts already promised to requests in flight)
BookRoom ==
    /\ Cardinality(DOMAIN books) < MaxBooks
    /\ NewId(books, bookSeq) <= MaxId
LoanRoom(k) ==
    /\ Cardinality(DOMAIN loans) + k < MaxLoans
    /\ NewId(loans, loanSeq) + k <= MaxId

\* No request is being served step by step
Quiet == \A r \in Reqs : req[r].pc = "idle"

\* ------------------------------------------------------- POST /books
add_book(title, author) ==
    /\ Quiet
    /\ LET invalid == IF version = "v7"
                      THEN Falsy(title) \/ Falsy(author)
                      ELSE FALSE
           keyError == version = "v3" /\ (title = None \/ author = None)
           id == NewId(books, bookSeq)
       IN  IF invalid
           THEN /\ last' = Response("add_book", 400, "Missing required fields", NoneId, NoneId)
                /\ UNCHANGED <<books, bookSeq>>
           ELSE IF keyError
           THEN /\ last' = Response("add_book", 500, "KeyError", NoneId, NoneId)
                /\ UNCHANGED <<books, bookSeq>>
           ELSE /\ BookRoom
                /\ books' = Put(books, id, [title |-> title, author |-> author, is_borrowed |-> FALSE])
                /\ bookSeq' = IF version = "v7" THEN bookSeq + 1 ELSE bookSeq
                /\ last' = Response("add_book", 201, "", id, NoneId)
    /\ UNCHANGED <<now, version, users, loans, loanSeq, returned, lent, req>>

\* ------------------------------------------------------- GET /books/<id>
\* faulty variant: reading a Book resets its flag
get_book_clearing(book_id) ==
    /\ Quiet
    /\ last' = IF QueryRaises(book_id)
               THEN Response("get_book", 500, "ValidationError", NoneId, NoneId)
               ELSE IF Missing(books, book_id)
               THEN Response("get_book", 404, "Book not found", NoneId, NoneId)
               ELSE Response("get_book", 200, "", NoneId, NoneId)
    /\ books' = IF QueryRaises(book_id) \/ Missing(books, book_id)
                THEN books
                ELSE ClearBorrowed(books, book_id)
    /\ UNCHANGED <<now, version, users, loans, bookSeq, loanSeq, returned, lent, req>>

get_book(book_id) ==
    /\ Quiet
    /\ last' = IF QueryRaises(book_id)
               THEN Response("get_book", 500, "ValidationError", NoneId, NoneId)
               ELSE IF Missing(books, book_id)
               THEN Response("get_book", 404, "Book not found", NoneId, NoneId)
               ELSE Response("get_book", 200, "", NoneId, NoneId)
    /\ UNCHANGED <<now, version, users, books, loans, bookSeq, loanSeq, returned, lent, req>>

\* faulty variant: title is overwritten with the author sent
UpdatedTitle_fromAuthor(book, title, author) == IF author = None THEN book.title ELSE author

\* update_book: `data.get('title', book.title)`
UpdatedTitle(book, title, author) == IF title = None THEN book.title ELSE title

\* update_book: `data.get('author', book.author)`
UpdatedAuthor(book, author) == IF author = None THEN book.author ELSE author

\* ------------------------------------------------------- PUT /books/<id>
\* flag: the status field of the JSON body ("is_borrowed", "available").
\* v3..v7 read title and author only; app/routes/book_routes.py also
\* assigns `book.available = data.get("available", book.available)`.
update_book(book_id, title, author, flag) ==
    /\ Quiet
    /\ IF QueryRaises(book_id)
       THEN /\ last' = Response("update_book", 500, "ValidationError", NoneId, NoneId)
            /\ UNCHANGED books
       ELSE IF Missing(books, book_id)
       THEN /\ last' = Response("update_book", 404, "Book not found", NoneId, NoneId)
            /\ UNCHANGED books
       ELSE /\ books' = IF version = "app"
                        THEN [books EXCEPT ![book_id].title = UpdatedTitle(books[book_id], title, author),
                                           ![book_id].author = UpdatedAuthor(books[book_id], author),
                                           ![book_id].available = IF flag.given THEN flag.value ELSE @]
                        ELSE [books EXCEPT ![book_id].title = UpdatedTitle(books[book_id], title, author),
                                           ![book_id].author = UpdatedAuthor(books[book_id], author)]
            /\ last' = Response("update_book", 200, "", NoneId, NoneId)
    /\ UNCHANGED <<now, version, users, loans, bookSeq, loanSeq, returned, lent, req>>

\* faulty variant: the Loans of a deleted Book are left in the store
Cascade_none(lns, b) == lns

\* v7: Loan.book has reverse_delete_rule CASCADE (SQLAlchemy versions: the
\* delete of a Book with Loans is rolled back, so there is none to remove)
Cascade(lns, b) == Drop(lns, LoansOf(lns, b))

\* ------------------------------------------------------- DELETE /books/<id>
\* v3: deleting a Book that Loans reference sets their NOT NULL book_id to
\* NULL at flush; the commit raises and the session is rolled back.
\* v7: Loan.book has reverse_delete_rule CASCADE.
delete_book(book_id) ==
    /\ Quiet
    /\ IF QueryRaises(book_id)
       THEN /\ last' = Response("delete_book", 500, "ValidationError", NoneId, NoneId)
            /\ UNCHANGED <<books, loans>>
       ELSE IF Missing(books, book_id)
       THEN /\ last' = Response("delete_book", 404, "Book not found", NoneId, NoneId)
            /\ UNCHANGED <<books, loans>>
       ELSE IF version = "v3" /\ LoansOf(loans, book_id) # {}
       THEN /\ last' = Response("delete_book", 500, "IntegrityError", NoneId, NoneId)
            /\ UNCHANGED <<books, loans>>
       ELSE /\ books' = Drop(books, {book_id})
            /\ loans' = Cascade(loans, book_id)
            /\ last' = Response("delete_book", 200, "Book deleted", NoneId, NoneId)
    /\ UNCHANGED <<now, version, users, bookSeq, loanSeq, returned, lent, req>>

\* ------------------------------------------------------- POST /loans
borrow_book(book_id, borrower_name) ==
    /\ Quiet
    /\ LET id == NewId(loans, loanSeq)
       IN  IF RequiredMissing(book_id, borrower_name)
           THEN /\ last' = Response("borrow_book", 400, "book_id and borrower_name are required",
                                    NoneId, NoneId)
                /\ UNCHANGED <<books, loans, loanSeq, lent>>
           ELSE IF QueryRaises(book_id)
           THEN /\ last' = Response("borrow_book", 500, "ValidationError", NoneId, NoneId)
                /\ UNCHANGED <<books, loans, loanSeq, lent>>
           ELSE IF Missing(books, book_id)
           THEN /\ last' = Response("borrow_book", 404, "Book not found", NoneId, NoneId)
                /\ UNCHANGED <<books, loans, loanSeq, lent>>
           ELSE IF IsBorrowed(books[book_id])
           THEN /\ last' = Response("borrow_book", 400, "Book already borrowed", NoneId, NoneId)
                /\ UNCHANGED <<books, loans, loanSeq, lent>>
           ELSE /\ LoanRoom(0)
                /\ loans' = Put(loans, id, NewLoan(book_id, borrower_name, now))
                /\ books' = MarkBorrowed(books, book_id)
                /\ loanSeq' = IF version = "v7" THEN loanSeq + 1 ELSE loanSeq
                /\ lent' = lent \cup {[id |-> id, book_id |-> book_id]}
                /\ last' = Response("borrow_book", 201, "", book_id, id)
    /\ UNCHANGED <<now, version, users, bookSeq, returned, req>>

\* ------------------------------------------------------- DELETE /loans/<id>
return_book(loan_id) ==
    /\ Quiet
    /\ IF QueryRaises(loan_id)
       THEN /\ last' = Response("return_book", 500, "ValidationError", NoneId, NoneId)
            /\ UNCHANGED <<books, loans, returned, lent>>
       ELSE IF Missing(loans, loan_id)
       THEN /\ last' = Response("return_book", 404, "Loan not found", NoneId, NoneId)
            /\ UNCHANGED <<books, loans, returned, lent>>
       ELSE LET b == loans[loan_id].book_id
            IN  IF b \notin DOMAIN books /\ version = "v3"
                THEN \* book is None: the assignment raises before anything is flushed
                     /\ last' = Response("return_book", 500, "AttributeError", NoneId, NoneId)
                     /\ UNCHANGED <<books, loans, returned, lent>>
                ELSE /\ books' = IF b \in DOMAIN books
                                 THEN ClearBorrowed(books, b)
                                 ELSE books
                     /\ loans' = Drop(loans, {loan_id})
                     /\ returned' = returned \cup {loan_id}
                     /\ lent' = {e \in lent : e.id # loan_id}
                     /\ last' = Response("return_book", 200, "returned successfully", NoneId, NoneId)
    /\ UNCHANGED <<now, version, users, bookSeq, loanSeq, req>>

\* ------------------------------------------------------- GET /loans
\* The orders in which the store may return the rows of a table
Rows(tbl) ==
    {f \in [1 .. Cardinality(DOMAIN tbl) -> DOMAIN tbl] :
        \A i, j \in 1 .. Cardinality(DOMAIN tbl) : i # j => f[i] # f[j]}

\* Loan.to_dict()
LoanDict(lns, l) ==
    [id |-> l, book_id |-> lns[l].book_id, borrower_name |-> lns[l].borrower_name,
     borrowed_at |-> lns[l].borrowed_at]

\* faulty variant: the first row is left out
Listed_tail(lns, rows) == [i \in 1 .. Len(rows) - 1 |-> LoanDict(lns, rows[i + 1])]

\* [l.to_dict() for l in loans]
Listed(lns, rows) == [i \in 1 .. Len(rows) |-> LoanDict(lns, rows[i])]

LoansResponse(status, msg, items) ==
    [op |-> "get_loans", status |-> status, msg |-> msg, book_id |-> NoneId, loan_id |-> NoneId,
     items |-> items]

\* v7: to_dict dereferences loan.book; a reference to a Book that is gone
\* raises DoesNotExist
get_loans ==
    /\ Quiet
    /\ IF version = "v7" /\ \E l \in DOMAIN loans : loans[l].book_id \notin DOMAIN books
       THEN last' = LoansResponse(500, "DoesNotExist", << >>)
       ELSE \E rows \in Rows(loans) :
                last' = LoansResponse(200, "", Listed(loans, rows))
    /\ UNCHANGED <<now, version, users, books, loans, bookSeq, loanSeq, returned, lent, req>>

\* ------------------------------------------------- requests served one at a time
AddBook == \E t \in Text \cup {None}, a \in Authors \cup {None} : add_book(t, a)
GetBook == \E b \in AnyIds : get_book(b)
\* Only the handler of package app reads the status field of the body; for
\* the others one body stands for all that differ in that field alone.
StatusFields == IF version = "app" THEN BodyFlags ELSE {NoFlag}
UpdateBook ==
    \E b \in AnyIds, t \in Text \cup {None}, a \in Authors \cup {None}, f \in StatusFields :
        update_book(b, t, a, f)
DeleteBook == \E b \in AnyIds : delete_book(b)
BorrowBook == \E b \in AnyIds \cup {NoneId}, n \in Names \cup {None} : borrow_book(b, n)
ReturnBook == \E l \in AnyIds : return_book(l)

Next ==
    \/ AddBook
    \/ GetBook
    \/ UpdateBook
    \/ DeleteBook
    \/ BorrowBook
    \/ ReturnBook

Spec == Init /\ [][Next]_vars

\* ------------------------------------------------ requests served while time passes
\* Spec and SpecConc serve their requests within one instant of the clock;
\* here the clock advances between requests.
Tick ==
    /\ now < MaxTime
    /\ now' = now + 1
    /\ UNCHANGED <<version, users, books, loans, bookSeq, loanSeq, last, returned, lent, req>>

LedgerAdd == add_book("A", "A")
LedgerGet == \E b \in 1 .. MaxId : get_book(b)
LedgerUpdate == \E b \in 1 .. MaxId, t \in {"", None} : update_book(b, t, None, NoFlag)
LedgerDelete == \E b \in 1 .. MaxId : delete_book(b)
LedgerBorrow == \E b \in 1 .. MaxId, n \in Names \ {""} : borrow_book(b, n)
LedgerReturn == \E l \in 1 .. MaxId : return_book(l)

NextLedger ==
    \/ Tick
    \/ LedgerAdd
    \/ LedgerGet
    \/ LedgerUpdate
    \/ LedgerDelete
    \/ LedgerBorrow
    \/ LedgerReturn

SpecLedger == Init /\ [][NextLedger]_vars

\* ---- the same requests with the clock standing still
NextCatalogue ==
    \/ LedgerAdd
    \/ LedgerGet
    \/ LedgerUpdate
    \/ LedgerDelete
    \/ LedgerBorrow
    \/ LedgerReturn

SpecCatalogue == Init /\ [][NextCatalogue]_vars

\* ------------------------------------------------ package app (and Main.py)
\* One Book table with an `available` column and no Loan table: the two
\* blueprints of the package (form pages, REST under /api/books) share it.

\* A Book's status as the callers see it
Borrowed(book) ==
    IF version = "app" THEN ~book.available
    ELSE IF version = "v1" THEN book.state = "borrowed"
    ELSE book.is_borrowed

\* POST /add: request.form['title'] answers 400 when the key is absent
add_book_form(title, author) ==
    /\ version = "app"
    /\ LET id == NewId(books, bookSeq)
       IN  IF title = None \/ author = None
           THEN /\ last' = Response("add_book", 400, "BadRequestKeyError", NoneId, NoneId)
                /\ UNCHANGED books
           ELSE /\ BookRoom
                /\ books' = Put(books, id, [title |-> title, author |-> author, available |-> TRUE])
                /\ last' = Response("add_book", 302, "", id, NoneId)
    /\ UNCHANGED <<now, version, users, loans, bookSeq, loanSeq, returned, lent, req>>

\* faulty variant: the status is flipped whatever it was
borrow_book_form_toggle(id) ==
    /\ version = "app"
    /\ books' = IF id \in DOMAIN books
                THEN [books EXCEPT ![id].available = ~@]
                ELSE books
    /\ last' = Response("borrow_book", 302, "", NoneId, NoneId)
    /\ UNCHANGED <<now, version, users, loans, bookSeq, loanSeq, returned, lent, req>>

\* GET /borrow/<id>: `if book and book.available`
borrow_book_form(id) ==
    /\ version = "app"
    /\ books' = IF id \in DOMAIN books /\ books[id].available
                THEN [books EXCEPT ![id].available = FALSE]
                ELSE books
    /\ last' = Response("borrow_book", 302, "", NoneId, NoneId)
    /\ UNCHANGED <<now, version, users, loans, bookSeq, loanSeq, returned, lent, req>>

\* GET /return/<id>: `if book and not book.available`
return_book_form(id) ==
    /\ version = "app"
    /\ books' = IF id \in DOMAIN books /\ ~books[id].available
                THEN [books EXCEPT ![id].available = TRUE]
                ELSE books
    /\ last' = Response("return_book", 302, "", NoneId, NoneId)
    /\ UNCHANGED <<now, version, users, loans, bookSeq, loanSeq, returned, lent, req>>

InitApp ==
    /\ version = "app"
    /\ InitStore

NextApp ==
    \/ \E t \in Text \cup {None}, a \in Authors \cup {None} : add_book_form(t, a)
    \/ \E b \in Ids : borrow_book_form(b)
    \/ \E b \in Ids : return_book_form(b)
    \/ GetBook
    \/ UpdateBook
    \/ DeleteBook

SpecApp == InitApp /\ [][NextApp]_vars

\* ------------------------------------------------ GET /books (v6, v7)
\* The paginated listing exists in v6 (SQLAlchemy; version "v3" stands for
\* it here) and in v7.  Texts are looked at character by character.
CharTable ==
    { <<"", << >> >>, <<" ", <<" ">> >>, <<"_", <<"_">> >>,
      <<"A", <<"A">> >>, <<"a", <<"a">> >>, <<"B", <<"B">> >>, <<"b", <<"b">> >>,
      <<"C", <<"C">> >>, <<"c", <<"c">> >>, <<"Ab", <<"A", "b">> >>,
      <<" b ", <<" ", "b", " ">> >>, <<"x", <<"x">> >>,
      <<"true", <<"t", "r", "u", "e">> >>, <<"True", <<"T", "r", "u", "e">> >>,
      <<"false", <<"f", "a", "l", "s", "e">> >> }
Chars(s) == (CHOOSE p \in CharTable : p[1] = s)[2]

\* str.lower() / SQL lower() of one character
Lower(c) == CASE c = "A" -> "a" [] c = "B" -> "b" [] c = "C" -> "c" [] c = "T" -> "t" [] OTHER -> c
LowerSeq(cs) == [i \in 1 .. Len(cs) |-> Lower(cs[i])]

\* code point order of the characters that occur in stored texts
CodeOrder == <<" ", "A", "B", "C", "_", "a", "b", "c">>
Code(c) == CHOOSE i \in 1 .. Len(CodeOrder) : CodeOrder[i] = c

\* str.strip()
RECURSIVE LStrip(_)
LStrip(cs) == IF cs # << >> /\ Head(cs) = " " THEN LStrip(Tail(cs)) ELSE cs
RECURSIVE RStrip(_)
RStrip(cs) == IF cs # << >> /\ cs[Len(cs)] = " " THEN RStrip(SubSeq(cs, 1, Len(cs) - 1)) ELSE cs
Strip(cs) == RStrip(LStrip(cs))

\* term occurs in text
IsInfix(term, text) ==
    \E i \in 0 .. (Len(text) - Len(term)) : SubSeq(text, i + 1, i + Len(term)) = term

\* v7: Q(field__icontains=term): the term is escaped and matched literally,
\* ignoring case
IContains(field, term) == IsInfix(LowerSeq(term), LowerSeq(Chars(field)))

\* SQL LIKE: % matches any run of characters, _ any single character
RECURSIVE Like(_, _)
Like(pattern, text) ==
    IF pattern = << >> THEN text = << >>
    ELSE IF Head(pattern) = "%"
         THEN Like(Tail(pattern), text) \/ (text # << >> /\ Like(pattern, Tail(text)))
    ELSE IF Head(pattern) = "_"
         THEN text # << >> /\ Like(Tail(pattern), Tail(text))
    ELSE text # << >> /\ Head(pattern) = Head(text) /\ Like(Tail(pattern), Tail(text))

\* v6: Book.field.ilike(f"%{term}%"): lower(field) LIKE lower('%term%'),
\* the term is not escaped
ILike(field, term) == Like(<<"%">> \o LowerSeq(term) \o <<"%">>, LowerSeq(Chars(field)))

\* request.args.get(name, default, type=int): the default when the
\* parameter is absent or is no integer
NoInt == -1000
IntArg(raw, default) == IF raw = NoInt THEN default ELSE raw

\* request.args.get(name, default)
StrArg(raw, default) == IF raw = None THEN default ELSE raw

\* request.args.get('is_borrowed', type=lambda x: x.lower() == 'true' if x else None)
BoolArg(raw) ==
    IF raw = None \/ raw = ""
    THEN NoFlag
    ELSE [given |-> TRUE, value |-> LowerSeq(Chars(raw)) = Chars("true")]

valid_sort_fields == {"title", "author", "id", "created_at"}

\* attributes of the Book model class (src/v2/models.py)
BookAttributes == {"id", "title", "author", "is_borrowed", "loan"}


\* get_books: `if is_borrowed_filter is not None`
FilterGiven(f) == f.given

\* The Books the query selects.  v6 never gets here with a search term
\* (see get_books); its author filter is a LIKE pattern.
Matches(book, search, author_filter, is_borrowed_filter) ==
    /\ search # << >> =>
            IContains(book.title, search) \/ IContains(book.author, search)
    /\ author_filter # << >> =>
            IF version = "v7"
            THEN IContains(book.author, author_filter)
            ELSE ILike(book.author, author_filter)
    /\ FilterGiven(is_borrowed_filter) => book.is_borrowed = is_borrowed_filter.value

Selected(search, author_filter, is_borrowed_filter) ==
    {b \in DOMAIN books : Matches(books[b], search, author_filter, is_borrowed_filter)}

\* Comparison of two texts by the store: character codes, left to right
RECURSIVE TextLeq(_, _)
TextLeq(s, t) ==
    IF s = << >> THEN TRUE
    ELSE IF t = << >> THEN FALSE
    ELSE IF Head(s) = Head(t) THEN TextLeq(Tail(s), Tail(t))
    ELSE Code(Head(s)) < Code(Head(t))

\* Book a sorts no later than Book b on the field.  v7 documents have no
\* created_at: on a field no document has, all of them compare equal.
KeyLeq(sort_by, a, b) ==
    CASE sort_by = "title" -> TextLeq(Chars(books[a].title), Chars(books[b].title))
      [] sort_by = "author" -> TextLeq(Chars(books[a].author), Chars(books[b].author))
      [] sort_by = "id" -> a <= b
      [] OTHER -> TRUE

\* faulty variant: the direction is ignored
Descending_never(sort_order) == FALSE

\* get_books: `if sort_order == 'desc'`
Descending(sort_order) == sort_order = "desc"

\* The orders in which the store may return the rows of S for
\* ORDER BY sort_by [DESC]; rows with equal keys come in any order
Orderings(S, sort_by, descending) ==
    {f \in [1 .. Cardinality(S) -> S] :
        /\ \A i, j \in 1 .. Cardinality(S) : i # j => f[i] # f[j]
        /\ \A i, j \in 1 .. Cardinality(S) :
              i < j => IF descending THEN KeyLeq(sort_by, f[j], f[i])
                                     ELSE KeyLeq(sort_by, f[i], f[j])}

\* faulty variant: floor instead of ceil
TotalPages_floor(total_items, per_page) == total_items \div per_page

\* pagination.pages / math.ceil(total_items / per_page)
TotalPages(total_items, per_page) == (total_items + per_page - 1) \div per_page

\* .offset((page - 1) * per_page).limit(per_page)
PageOf(rows, page, per_page) ==
    SubSeq(rows, (page - 1) * per_page + 1,
           IF page * per_page < Len(rows) THEN page * per_page ELSE Len(rows))

NoPagination ==
    [page |-> 0, per_page |-> 0, total_pages |-> 0, total_items |-> 0,
     has_next |-> FALSE, has_prev |-> FALSE]

ListResponse(request, status, msg, items, pagination) ==
    [op |-> "get_books", status |-> status, msg |-> msg, book_id |-> NoneId, loan_id |-> NoneId,
     request |-> request, items |-> items, pagination |-> pagination]

\* faulty variant: the upper bound of per_page is not tested
PerPageInvalid_noMax(per_page) == per_page < 1

\* get_books: `if per_page < 1 or per_page > 100`
PerPageInvalid(per_page) == per_page < 1 \/ per_page > 100

\* get_books: `if sort_by not in valid_sort_fields`
SortFieldInvalid(sort_by) == sort_by \notin valid_sort_fields

get_books(page_arg, per_page_arg, search_arg, author_arg, is_borrowed_arg, sort_by_arg, sort_order_arg) ==
    /\ Quiet
    /\ LET page == IntArg(page_arg, 1)
           per_page == IntArg(per_page_arg, 10)
           search == Strip(Chars(StrArg(search_arg, "")))
           author_filter == Strip(Chars(StrArg(author_arg, "")))
           is_borrowed_filter == BoolArg(is_borrowed_arg)
           sort_by == StrArg(sort_by_arg, "title")
           sort_order == StrArg(sort_order_arg, "asc")
           request == [page |-> page_arg, per_page |-> per_page_arg, search |-> search_arg,
                       author |-> author_arg, is_borrowed |-> is_borrowed_arg,
                       sort_by |-> sort_by_arg, sort_order |-> sort_order_arg]
           found == Selected(search, author_filter, is_borrowed_filter)
           total_items == Cardinality(found)
           total_pages == TotalPages(total_items, per_page)
       IN  IF page < 1
           THEN last' = ListResponse(request, 400, "Page must be greater than 0", << >>, NoPagination)
           ELSE IF PerPageInvalid(per_page)
           THEN last' = ListResponse(request, 400, "per_page must be between 1 and 100", << >>, NoPagination)
           ELSE IF SortFieldInvalid(sort_by)
           THEN last' = ListResponse(request, 400, "Invalid sort field", << >>, NoPagination)
           ELSE IF version = "v3" /\ search # << >>
           THEN \* v6 calls or_(...), a name the module never imports
                last' = ListResponse(request, 500, "NameError", << >>, NoPagination)
           ELSE IF version = "v3" /\ sort_by \notin BookAttributes
           THEN \* v6: getattr(Book, sort_by) on an attribute the model lacks
                last' = ListResponse(request, 500, "AttributeError", << >>, NoPagination)
           ELSE \E rows \in Orderings(found, sort_by, Descending(sort_order)) :
                    last' = ListResponse(request, 200, "", PageOf(rows, page, per_page),
                                [page |-> page, per_page |-> per_page,
                                 total_pages |-> total_pages, total_items |-> total_items,
                                 has_next |-> page < total_pages, has_prev |-> page > 1])
    /\ UNCHANGED <<now, version, users, books, loans, bookSeq, loanSeq, returned, lent, req>>

\* ---- pagination: a catalogue of Books and requests that page through it
PageArgs == {NoInt, -1, 0, 1, 2, 3}
PerPageArgs == {NoInt, 0, 1, 2, 100, 101}

PageAdd == add_book("A", "A")
PageBorrow == \E b \in DOMAIN books : borrow_book(b, "Alice")
ListPaged ==
    \E p \in PageArgs, pp \in PerPageArgs, ib \in {None, "true"} :
        get_books(p, pp, None, None, ib, None, None)

NextListPage ==
    \/ PageAdd
    \/ PageBorrow
    \/ ListPaged

SpecListPage == Init /\ [][NextListPage]_vars

\* ---- filters: Books with different texts and requests that filter them
FilterTitles == {"Ab", "C"}
FilterAuthors == {"A", "c"}
SearchArgs == {None, " ", "B", "c"}
AuthorArgs == {None, "a", " b ", "_"}
IsBorrowedArgs == {None, "True", "false", "x"}

FilterAdd == \E t \in FilterTitles, a \in FilterAuthors : add_book(t, a)
FilterBorrow == \E b \in DOMAIN books : borrow_book(b, "Alice")
ListFiltered ==
    \E s \in SearchArgs, a \in AuthorArgs, ib \in IsBorrowedArgs :
        get_books(NoInt, NoInt, s, a, ib, None, None)

NextListFilter ==
    \/ FilterAdd
    \/ FilterBorrow
    \/ ListFiltered

SpecListFilter == Init /\ [][NextListFilter]_vars

\* ---- sorting: Books with different texts and requests that sort them
SortBooks ==
    { [title |-> "Ab", author |-> "c"], [title |-> "b", author |-> "A"],
      [title |-> "C", author |-> "c"] }
SortByArgs == {None, "title", "author", "id", "created_at", "is_borrowed", "x"}
SortOrderArgs == {None, "asc", "desc", "x"}

SortAdd == \E bk \in SortBooks : add_book(bk.title, bk.author)
ListSorted ==
    \E sb \in SortByArgs, so \in SortOrderArgs, pp \in {NoInt, 1} :
        get_books(NoInt, pp, None, None, None, sb, so)

NextListSort ==
    \/ SortAdd
    \/ ListSorted

SpecListSort == Init /\ [][NextListSort]_vars

\* ---- reads: a small catalogue with loans, and every read of it
NextRead ==
    \/ add_book("A", "A")
    \/ \E b \in 1 .. MaxId : borrow_book(b, "Alice")
    \/ \E l \in 1 .. MaxId : return_book(l)
    \/ \E b \in 1 .. MaxId : delete_book(b)
    \/ \E b \in AnyIds : get_book(b)
    \/ \E p \in {NoInt, 0}, s \in {None, "A"} :
            get_books(p, NoInt, s, None, None, None, None)
    \/ get_loans

SpecRead == Init /\ [][NextRead]_vars

\* ------------------------------------------------ v1: the state-field version
\* Book rows of v1: id -> [title, author, state]

\* add_book: data['title'] raises KeyError for an absent field; the state
\* column defaults to 'available'
add_book_state(title, author) ==
    /\ version = "v1"
    /\ LET id == NewId(books, bookSeq)
       IN  IF title = None \/ author = None
           THEN /\ last' = Response("add_book", 500, "KeyError", NoneId, NoneId)
                /\ UNCHANGED books
           ELSE /\ BookRoom
                /\ books' = Put(books, id, [title |-> title, author |-> author, state |-> "available"])
                /\ last' = Response("add_book", 201, "", id, NoneId)
    /\ UNCHANGED <<now, version, users, loans, bookSeq, loanSeq, returned, lent, req>>

\* faulty variant: the state is not tested
AlreadyBorrowed_never(book) == FALSE

\* borrow_book: `if book.state == 'borrowed'`
AlreadyBorrowed(book) == book.state = "borrowed"

\* return_book: `if book.state == 'available'`
NotBorrowed(book) == book.state = "available"

\* POST /books/<id>/borrow
borrow_book_state(book_id) ==
    /\ version = "v1"
    /\ IF Missing(books, book_id)
       THEN /\ last' = Response("borrow_book", 404, "Book not found", NoneId, NoneId)
            /\ UNCHANGED books
       ELSE IF AlreadyBorrowed(books[book_id])
       THEN /\ last' = Response("borrow_book", 400, "Book already borrowed", NoneId, NoneId)
            /\ UNCHANGED books
       ELSE /\ books' = [books EXCEPT ![book_id].state = "borrowed"]
            /\ last' = Response("borrow_book", 200, "Book borrowed", book_id, NoneId)
    /\ UNCHANGED <<now, version, users, loans, bookSeq, loanSeq, returned, lent, req>>

\* POST /books/<id>/return
return_book_state(book_id) ==
    /\ version = "v1"
    /\ IF Missing(books, book_id)
       THEN /\ last' = Response("return_book", 404, "Book not found", NoneId, NoneId)
            /\ UNCHANGED books
       ELSE IF NotBorrowed(books[book_id])
       THEN /\ last' = Response("return_book", 400, "Book is not borrowed", NoneId, NoneId)
            /\ UNCHANGED books
       ELSE /\ books' = [books EXCEPT ![book_id].state = "available"]
            /\ last' = Response("return_book", 200, "Book returned", book_id, NoneId)
    /\ UNCHANGED <<now, version, users, loans, bookSeq, loanSeq, returned, lent, req>>

InitState ==
    /\ version = "v1"
    /\ InitStore

NextState ==
    \/ \E t \in Text \cup {None}, a \in Authors \cup {None} : add_book_state(t, a)
    \/ \E b \in Ids : borrow_book_state(b)
    \/ \E b \in Ids : return_book_state(b)
    \/ GetBook
    \/ UpdateBook
    \/ DeleteBook

SpecState == InitState /\ [][NextState]_vars

\* ------------------------------------------------ bearer tokens
NoToken == "<no token>"                \* request without Authorization header
ValidToken == "valid"                  \* a token create_access_token issued, not expired
Tokens == {NoToken, "expired", "forged", ValidToken}

\* The str of a character sequence
Str(cs) == (CHOOSE p \in CharTable : p[2] = cs)[1]

\* package app, POST /api/books/: `title = data["title"] , author = data["author"]`
\* is one chained assignment, title = (data["title"], author) = data["author"]:
\* it unpacks the author string into data["title"] and author
add_book_json(title, author) ==
    /\ version = "app"
    /\ LET id == NewId(books, bookSeq)
       IN  IF author = None
           THEN /\ last' = Response("add_book", 500, "KeyError", NoneId, NoneId)
                /\ UNCHANGED books
           ELSE IF Len(Chars(author)) # 2
           THEN /\ last' = Response("add_book", 500, "ValueError", NoneId, NoneId)
                /\ UNCHANGED books
           ELSE /\ BookRoom
                /\ books' = Put(books, id, [title |-> Str(<<Chars(author)[1]>>), author |-> author,
                                            available |-> TRUE])
                /\ last' = Response("add_book", 201, "Book added", NoneId, NoneId)
    /\ UNCHANGED <<now, version, users, loans, bookSeq, loanSeq, returned, lent, req>>

\* The handlers decorated with @jwt_required()
Protected(op) ==
    IF version \in {"v3", "v7"} THEN TRUE
    ELSE IF version = "app" THEN op \in {"get_books", "add_book"}
    ELSE FALSE

\* flask_jwt_extended: no header or an expired token is answered 401, a
\* token that does not decode or verify 422, and the view is not called
Rejected(op, token) ==
    /\ Quiet
    /\ last' = Response(op, IF token = "forged" THEN 422 ELSE 401, "jwt", NoneId, NoneId)
    /\ UNCHANGED <<now, version, users, books, loans, bookSeq, loanSeq, returned, lent, req>>

jwt_required(op, token, view) ==
    IF Protected(op) /\ token # ValidToken THEN Rejected(op, token) ELSE view

AuthAuthors == {"A", "Ab"}

post_books(token, author) ==
    jwt_required("add_book", token,
        IF version = "v1" THEN add_book_state("A", author)
        ELSE IF version = "app" THEN add_book_json("A", author)
        ELSE add_book("A", author))
get_books_id(token, id) == jwt_required("get_book", token, get_book(id))
put_books_id(token, id) == jwt_required("update_book", token, update_book(id, "", None, NoFlag))
delete_books_id(token, id) == jwt_required("delete_book", token, delete_book(id))
post_loans(token, id) ==
    /\ version # "app"
    /\ jwt_required("borrow_book", token,
          IF version = "v1" THEN borrow_book_state(id) ELSE borrow_book(id, "Alice"))
delete_loans_id(token, id) ==
    /\ version # "app"
    /\ jwt_required("return_book", token,
          IF version = "v1" THEN return_book_state(id) ELSE return_book(id))
get_loans_all(token) ==
    /\ version \in {"v3", "v7"}
    /\ jwt_required("get_loans", token, get_loans)

InitAuth ==
    /\ version \in {"v1", "v3", "v7", "app"}
    /\ InitStore

NextAuth ==
    \/ \E tk \in Tokens, a \in AuthAuthors : post_books(tk, a)
    \/ \E tk \in Tokens, b \in 1 .. MaxId : get_books_id(tk, b)
    \/ \E tk \in Tokens, b \in 1 .. MaxId : put_books_id(tk, b)
    \/ \E tk \in Tokens, b \in 1 .. MaxId : delete_books_id(tk, b)
    \/ \E tk \in Tokens, b \in 1 .. MaxId : post_loans(tk, b)
    \/ \E tk \in Tokens, b \in 1 .. MaxId : delete_loans_id(tk, b)
    \/ \E tk \in Tokens : get_loans_all(tk)

SpecAuth == InitAuth /\ [][NextAuth]_vars

\* ------------------------------------------------ the generated OpenAPI server
\* JSON bodies sent to POST /books: a field may be absent (None, NoneId) and
\* the id may be no integer (BadId)
Bodies ==
    [author : {None, "", "author"}, id : AnyIds \cup {NoneId},
     title : {None, "", "A", "title"}]

\* The example body of the generated test: all three fields, typed as the
\* Book schema types them
Conforms(body) == body.author # None /\ body.title # None /\ body.id \in Ids

\* A view that returns a bare value is answered 200 with that value
Served(op, body) ==
    [op |-> op, status |-> 200, msg |-> "do some magic!", book_id |-> NoneId, loan_id |-> NoneId,
     body |-> body]

\* Request validation against the API description answers 400
Refused(op, body) ==
    [op |-> op, status |-> 400, msg |-> "", book_id |-> NoneId, loan_id |-> NoneId, body |-> body]

\* books_get: return 'do some magic!'
books_get ==
    /\ version = "openapi"
    /\ last' = Served("books_get", None)
    /\ UNCHANGED <<now, version, users, books, loans, bookSeq, loanSeq, returned, lent, req>>

\* faulty variant: the view answers 201 Created
books_post_created(body) ==
    /\ version = "openapi"
    /\ last' = [Served("books_post", body) EXCEPT !.status = 201]
    /\ UNCHANGED <<now, version, users, books, loans, bookSeq, loanSeq, returned, lent, req>>

\* books_post: Book.from_dict(get_json()) builds a model object that is
\* dropped; return 'do some magic!'.  A body that does not fit the Book
\* schema is refused before the view or served, as the API description has it.
books_post(body) ==
    /\ version = "openapi"
    /\ \/ last' = Served("books_post", body)
       \/ ~Conforms(body) /\ last' = Refused("books_post", body)
    /\ UNCHANGED <<now, version, users, books, loans, bookSeq, loanSeq, returned, lent, req>>

InitOpenApi ==
    /\ version = "openapi"
    /\ InitStore

NextOpenApi ==
    \/ books_get
    \/ \E body \in Bodies : books_post(body)

SpecOpenApi == InitOpenApi /\ [][NextOpenApi]_vars

\* ------------------------------------------------ /register and /login
\* v4/v5 (SQLAlchemy, here version "v3") index the JSON body, v7 reads it
\* with data.get(); None is a field absent from the body.

\* set_password: the stored hash is a value made from the password that is
\* no password itself
generate_password_hash(password) == <<"hash", password>>

\* check_password
check_password_hash(pw_hash, password) == pw_hash = generate_password_hash(password)

\* User.query.filter_by(username=...) / User.objects(username=...)
UsersNamed(username) == {i \in DOMAIN users : users[i].username = username}

\* POST /register. The username column/field is unique: an insert of a
\* second row with the same username raises at commit/save.
register(username, password) ==
    /\ LET stored == Append(users, [username |-> username,
                                    password_hash |-> generate_password_hash(password)])
           answer(status, msg) == /\ last' = Response("register", status, msg, NoneId, NoneId)
                                  /\ UNCHANGED users
       IN  IF version = "v7" /\ (Falsy(username) \/ Falsy(password))
           THEN answer(400, "Missing username or password")
           ELSE IF username = None
           THEN answer(500, "KeyError")
           ELSE IF UsersNamed(username) # {}
           THEN answer(400, "Username already exists")
           ELSE IF password = None
           THEN answer(500, "KeyError")
           ELSE IF \E i \in DOMAIN users : users[i].username = username
           THEN answer(500, "IntegrityError")
           ELSE /\ users' = stored
                /\ last' = Response("register", 201, "User created successfully", NoneId, NoneId)
    /\ UNCHANGED <<now, version, books, loans, bookSeq, loanSeq, returned, lent, req>>

\* POST /login: `if not user or not user.check_password(password)`; the
\* password is read (v4/v5) or hashed (v7) only when a user was found
login(username, password) ==
    /\ last' = IF version # "v7" /\ username = None
               THEN Response("login", 500, "KeyError", NoneId, NoneId)
               ELSE IF UsersNamed(username) = {}
               THEN Response("login", 401, "Invalid credentials", NoneId, NoneId)
               ELSE IF password = None
               THEN Response("login", 500, IF version = "v7" THEN "TypeError" ELSE "KeyError",
                             NoneId, NoneId)
               ELSE LET user == users[CHOOSE i \in UsersNamed(username) :
                                         \A j \in UsersNamed(username) : i <= j]
                    IN  IF check_password_hash(user.password_hash, password)
                        THEN Response("login", 200, "", NoneId, NoneId)
                        ELSE Response("login", 401, "Invalid credentials", NoneId, NoneId)
    /\ UNCHANGED <<now, version, users, books, loans, bookSeq, loanSeq, returned, lent, req>>

NextUsers ==
    \/ \E u \in {None, "", "ann", "bob"}, p \in {None, "", "pw", "other"} : register(u, p)
    \/ \E u \in {None, "", "ann", "bob"}, p \in {None, "", "pw", "other"} : login(u, p)

SpecUsers == Init /\ [][NextUsers]_vars

\* ------------------------------------------------ requests served concurrently
\* Each request runs in its own worker; one step is one statement that
\* reaches the store (a query, a save()/delete(), a session commit).
InFlightBorrows ==
    Cardinality({r \in Reqs : req[r].op = "borrow_book" /\ req[r].pc \in {"read_book", "commit", "save_loan"}})

Done(r, status) == req' = [req EXCEPT ![r].pc = "done", ![r].status = status]

\* borrow_book: body parsing and the required-fields test
StartBorrow(r, book_id, borrower_name) ==
    /\ req[r].pc = "idle"
    /\ DOMAIN books # {}
    /\ IF RequiredMissing(book_id, borrower_name)
       THEN req' = [req EXCEPT ![r] = [Idle EXCEPT !.op = "borrow_book", !.pc = "done",
                        !.book_id = book_id, !.borrower_name = borrower_name, !.status = 400]]
       ELSE /\ LoanRoom(InFlightBorrows)
            /\ req' = [req EXCEPT ![r] = [Idle EXCEPT !.op = "borrow_book", !.pc = "read_book",
                        !.book_id = book_id, !.borrower_name = borrower_name]]
    /\ UNCHANGED <<now, version, users, books, loans, bookSeq, loanSeq, last, returned, lent>>

\* borrow_book: the Book query and the tests on its result
BorrowReadBook(r) ==
    /\ req[r].op = "borrow_book" /\ req[r].pc = "read_book"
    /\ IF req[r].book_id \notin DOMAIN books
       THEN Done(r, 404)
       ELSE IF IsBorrowed(books[req[r].book_id])
       THEN Done(r, 400)
       ELSE req' = [req EXCEPT ![r].pc = IF version = "v3" THEN "commit" ELSE "save_loan"]
    /\ UNCHANGED <<now, version, users, books, loans, bookSeq, loanSeq, last, returned, lent>>

\* borrow_book, SQLAlchemy: db.session.commit() flushes INSERT loan and
\* UPDATE book in one transaction
BorrowCommit(r) ==
    /\ req[r].op = "borrow_book" /\ req[r].pc = "commit"
    /\ LET id == NewId(loans, loanSeq)
       IN  /\ loans' = Put(loans, id, NewLoan(req[r].book_id, req[r].borrower_name, now))
           /\ books' = MarkBorrowed(books, req[r].book_id)
           /\ req' = [req EXCEPT ![r].pc = "done", ![r].status = 201, ![r].loan_id = id]
           /\ lent' = lent \cup {[id |-> id, book_id |-> req[r].book_id]}
    /\ UNCHANGED <<now, version, users, bookSeq, loanSeq, last, returned>>

\* borrow_book, MongoEngine: Loan(...).save()
BorrowSaveLoan(r) ==
    /\ req[r].op = "borrow_book" /\ req[r].pc = "save_loan"
    /\ LET id == NewId(loans, loanSeq)
       IN  /\ loans' = Put(loans, id, NewLoan(req[r].book_id, req[r].borrower_name, now))
           /\ loanSeq' = loanSeq + 1
           /\ req' = [req EXCEPT ![r].pc = "save_book", ![r].loan_id = id]
           /\ lent' = lent \cup {[id |-> id, book_id |-> req[r].book_id]}
    /\ UNCHANGED <<now, version, users, books, bookSeq, last, returned>>

\* borrow_book, MongoEngine: book.is_borrowed = True; book.save()
BorrowSaveBook(r) ==
    /\ req[r].op = "borrow_book" /\ req[r].pc = "save_book"
    /\ books' = MarkBorrowed(books, req[r].book_id)
    /\ Done(r, 201)
    /\ UNCHANGED <<now, version, users, loans, bookSeq, loanSeq, last, returned, lent>>

\* return_book: request received
StartReturn(r, loan_id) ==
    /\ req[r].pc = "idle"
    /\ DOMAIN books # {}
    /\ req' = [req EXCEPT ![r] = [Idle EXCEPT !.op = "return_book", !.pc = "read_loan", !.loan_id = loan_id]]
    /\ UNCHANGED <<now, version, users, books, loans, bookSeq, loanSeq, last, returned, lent>>

\* return_book: the Loan query
ReturnReadLoan(r) ==
    /\ req[r].op = "return_book" /\ req[r].pc = "read_loan"
    /\ IF req[r].loan_id \notin DOMAIN loans
       THEN Done(r, 404)
       ELSE req' = [req EXCEPT ![r].pc = "read_book", ![r].book_id = loans[req[r].loan_id].book_id]
    /\ UNCHANGED <<now, version, users, books, loans, bookSeq, loanSeq, last, returned, lent>>

\* return_book: Book.query.get(loan.book_id) / dereference of loan.book
ReturnReadBook(r) ==
    /\ req[r].op = "return_book" /\ req[r].pc = "read_book"
    /\ req' = [req EXCEPT ![r].pc = IF version = "v3" THEN "commit" ELSE "save_book",
                          ![r].flag = books[req[r].book_id].is_borrowed]
    /\ UNCHANGED <<now, version, users, books, loans, bookSeq, loanSeq, last, returned, lent>>

\* return_book, SQLAlchemy: db.session.commit() flushes UPDATE book (when
\* the attribute changed from its loaded value) and DELETE loan together
ReturnCommit(r) ==
    /\ req[r].op = "return_book" /\ req[r].pc = "commit"
    /\ books' = IF req[r].flag THEN ClearBorrowed(books, req[r].book_id) ELSE books
    /\ loans' = Drop(loans, {req[r].loan_id})
    /\ returned' = returned \cup {req[r].loan_id}
    /\ lent' = {e \in lent : e.id # req[r].loan_id}
    /\ Done(r, 200)
    /\ UNCHANGED <<now, version, users, bookSeq, loanSeq, last>>

\* return_book, MongoEngine: book.is_borrowed = False; book.save() writes
\* the field when it differs from the loaded value
ReturnSaveBook(r) ==
    /\ req[r].op = "return_book" /\ req[r].pc = "save_book"
    /\ books' = IF req[r].flag THEN ClearBorrowed(books, req[r].book_id) ELSE books
    /\ req' = [req EXCEPT ![r].pc = "delete_loan"]
    /\ UNCHANGED <<now, version, users, loans, bookSeq, loanSeq, last, returned, lent>>

\* return_book, MongoEngine: loan.delete()
ReturnDeleteLoan(r) ==
    /\ req[r].op = "return_book" /\ req[r].pc = "delete_loan"
    /\ loans' = Drop(loans, {req[r].loan_id})
    /\ returned' = returned \cup {req[r].loan_id}
    /\ lent' = {e \in lent : e.id # req[r].loan_id}
    /\ Done(r, 200)
    /\ UNCHANGED <<now, version, users, books, bookSeq, loanSeq, last>>

\* A request dies before its next store call (the call raises, the worker
\* is killed): the caller gets 500 and what was written stays written;
\* an uncommitted SQLAlchemy session is rolled back.
Abort(r) ==
    /\ req[r].pc \in {"commit", "save_loan", "save_book", "delete_loan"}
    /\ req' = [req EXCEPT ![r].pc = "failed", ![r].status = 500]
    /\ UNCHANGED <<now, version, users, books, loans, bookSeq, loanSeq, last, returned, lent>>

\* The store the concurrent requests start from is built one request at a time
Setup ==
    \/ \E t \in Text \ {""}, a \in Authors : add_book(t, a)
    \/ \E b \in DOMAIN books, n \in Names \ {""} : borrow_book(b, n)
BorrowStart == \E r \in Reqs, b \in Ids \cup {NoneId}, n \in Names \cup {None} : StartBorrow(r, b, n)
BorrowRead == \E r \in Reqs : BorrowReadBook(r)
BorrowWrite == \E r \in Reqs : BorrowCommit(r) \/ BorrowSaveLoan(r)
BorrowFlag == \E r \in Reqs : BorrowSaveBook(r)
ReturnStart == \E r \in Reqs, l \in Ids : StartReturn(r, l)
ReturnRead == \E r \in Reqs : ReturnReadLoan(r) \/ ReturnReadBook(r)
ReturnWrite == \E r \in Reqs : ReturnCommit(r) \/ ReturnSaveBook(r)
ReturnDelete == \E r \in Reqs : ReturnDeleteLoan(r)
Fail == \E r \in Reqs : Abort(r)

NextConc ==
    \/ Setup
    \/ BorrowStart
    \/ BorrowRead
    \/ BorrowWrite
    \/ BorrowFlag
    \/ ReturnStart
    \/ ReturnRead
    \/ ReturnWrite
    \/ ReturnDelete
    \/ Fail

SpecConc == Init /\ [][NextConc]_vars

\* ====================================================================== claims

BorrowReqs == {r \in Reqs : req[r].op = "borrow_book"}
ReturnReqs == {r \in Reqs : req[r].op = "return_book"}

\* C1: two concurrent borrow requests for the same available book cannot
\* both succeed: as long as only borrow requests are being served, at most
\* one of those naming a book has answered 201 and at most one Loan
\* references that book.
C1_ConcurrentBorrowsExclusive ==
    ReturnReqs = {} =>
        \A b \in DOMAIN books :
            /\ Cardinality({r \in BorrowReqs : req[r].book_id = b /\ req[r].status = 201}) <= 1
            /\ Cardinality(LoansOf(loans, b)) <= 1

\* C2: with requests served one at a time, every Book has at most one
\* active Loan referencing it.
C2_AtMostOneLoanPerBook ==
    \A b \in DOMAIN books : Cardinality(LoansOf(loans, b)) <= 1

\* a book was borrowed, returned and borrowed again, and another book is on loan too
C2_Witness ==
    /\ returned # {}
    /\ last.op = "borrow_book" /\ last.status = 201
    /\ Cardinality(DOMAIN loans) = 2
    /\ \A b \in DOMAIN books : Cardinality(LoansOf(loans, b)) = 1

\* C3: with requests served one at a time, a Book's is_borrowed flag is
\* true if and only if an active Loan references that Book.
C3_FlagIffActiveLoan ==
    \A b \in DOMAIN books : books[b].is_borrowed <=> LoansOf(loans, b) # {}

\* one book is on loan and flagged while another, returned, is not
C3_Witness ==
    /\ last.op = "return_book" /\ last.status = 200
    /\ \E b \in DOMAIN books : books[b].is_borrowed /\ LoansOf(loans, b) # {}
    /\ \E b \in DOMAIN books : ~books[b].is_borrowed /\ LoansOf(loans, b) = {}

\* C4: every step serving a borrow request for a Book that has an active
\* Loan answers 400 whatever borrower_name it carries ("Book already
\* borrowed" for every non-empty name) and leaves all Books and Loans as
\* they were.
C4_BorrowOfBorrowedBookConflicts ==
    [][last'.op = "borrow_book" =>
         \A b \in DOMAIN books, n \in Names \cup {None} :
            \/ /\ last'.status = 400
               /\ ~Falsy(n) => last'.msg = "Book already borrowed"
               /\ books' = books
               /\ loans' = loans
            \/ ~(LoansOf(loans, b) # {} /\ borrow_book(b, n))]_vars

\* a second borrow of a book on loan has been refused
C4_Witness ==
    /\ last.op = "borrow_book" /\ last.msg = "Book already borrowed"
    /\ \E b \in DOMAIN books : LoansOf(loans, b) # {}

\* C5: a Book's is_borrowed is false when the Book is created, turns true
\* only by a successful borrow of that Book (which always turns it true),
\* and turns false again only by, and immediately with, the successful
\* return of the Loan referencing that Book.
C5_FlagFollowsBorrowAndReturn ==
    [][/\ \A b \in DOMAIN books' \ DOMAIN books : ~books'[b].is_borrowed
       /\ \A b \in DOMAIN books \cap DOMAIN books' :
            /\ (~books[b].is_borrowed /\ books'[b].is_borrowed) =>
                    \E n \in Names : borrow_book(b, n) /\ last'.status = 201
            /\ (books[b].is_borrowed /\ ~books'[b].is_borrowed) =>
                    \E l \in LoansOf(loans, b) : return_book(l) /\ last'.status = 200
       /\ (last'.op = "borrow_book" /\ last'.status = 201) =>
            \A b \in DOMAIN books, n \in Names :
                borrow_book(b, n) =>
                    /\ ~books[b].is_borrowed /\ books'[b].is_borrowed
                    /\ LoansOf(loans', b) = {last'.loan_id}
       /\ (last'.op = "return_book" /\ last'.status = 200) =>
            \A l \in DOMAIN loans :
                return_book(l) =>
                    /\ books[loans[l].book_id].is_borrowed
                    /\ ~books'[loans[l].book_id].is_borrowed]_vars

\* a book that was borrowed has just been returned and shows is_borrowed false
C5_Witness ==
    /\ last.op = "return_book" /\ last.status = 200
    /\ returned # {} /\ loans = << >>
    /\ Cardinality(DOMAIN books) = 2
    /\ \A b \in DOMAIN books : ~books[b].is_borrowed

\* C6: a return of a loan id that was already returned answers 404 and
\* changes no Book and no Loan, also when the book was borrowed again.
C6_SecondReturnNotFound ==
    [][last'.op = "return_book" =>
         \A l \in returned :
            return_book(l) => /\ last'.status = 404
                              /\ books' = books
                              /\ loans' = loans]_vars

\* C7: borrow is atomic: while only borrow requests are being served (some
\* of them possibly failed between their store writes), no Book is without
\* a Loan while flagged, or has a Loan while not flagged.
C7_BorrowAtomic ==
    ReturnReqs = {} =>
        \A b \in DOMAIN books : books[b].is_borrowed <=> LoansOf(loans, b) # {}

\* C8: return is atomic: while only return requests are being served (some
\* of them possibly failed between their store writes), no Loan exists
\* whose Book is not flagged, and no Book is flagged without a Loan.
C8_ReturnAtomic ==
    BorrowReqs = {} =>
        /\ \A l \in DOMAIN loans : books[loans[l].book_id].is_borrowed
        /\ \A b \in DOMAIN books : books[b].is_borrowed => LoansOf(loans, b) # {}

\* C9: every step serving a borrow request answers 400 when book_id or borrower_name is missing or
\* empty, and 404 when both are given and book_id names no Book; in both
\* cases it creates no Loan and changes no Book.
C9_BorrowRejectsBadInput ==
    [][last'.op = "borrow_book" =>
         \A b \in AnyIds \cup {NoneId}, n \in Names \cup {None} :
            borrow_book(b, n) =>
                /\ (FalsyId(b) \/ Falsy(n)) =>
                        /\ last'.status = 400
                        /\ last'.msg = "book_id and borrower_name are required"
                        /\ books' = books /\ loans' = loans
                /\ (~FalsyId(b) /\ ~Falsy(n) /\ b \notin DOMAIN books) =>
                        /\ last'.status = 404
                        /\ books' = books /\ loans' = loans]_vars

\* C10: create answers 400 and adds no Book whenever title or author is
\* missing or empty; otherwise it adds exactly one Book, with the given
\* title and author and is_borrowed = false.
C10_CreateValidates ==
    [][last'.op = "add_book" =>
         \A t \in Text \cup {None}, a \in Authors \cup {None} :
            add_book(t, a) =>
                IF Falsy(t) \/ Falsy(a)
                THEN last'.status = 400 /\ books' = books
                ELSE /\ last'.status = 201
                     /\ \E id \in DOMAIN books' \ DOMAIN books :
                            /\ DOMAIN books' = DOMAIN books \cup {id}
                            /\ books'[id] = [title |-> t, author |-> a, is_borrowed |-> FALSE]
                     /\ \A i \in DOMAIN books : books'[i] = books[i]]_vars

\* C11: a Book's borrowed/available status changes only in a step that
\* serves a borrow of that Book (available to borrowed) or a return of it
\* (borrowed to available); no update, whatever its body carries, and no
\* create, get or delete changes the status of a Book that stays in the
\* store.
C11_StatusOnlyByBorrowReturn ==
    [][\A b \in DOMAIN books \cap DOMAIN books' :
          Borrowed(books[b]) # Borrowed(books'[b]) =>
              \/ last'.op = "borrow_book" /\ ~Borrowed(books[b])
              \/ last'.op = "return_book" /\ Borrowed(books[b])]_vars

C13_UnknownBookNotFound ==
    [][last'.op \in {"get_book", "update_book", "delete_book"} =>
         \A b \in AnyIds \ DOMAIN books :
            (\/ get_book(b)
             \/ delete_book(b)
             \/ \E t \in Text \cup {None}, a \in Authors \cup {None}, f \in BodyFlags :
                    update_book(b, t, a, f)) =>
                /\ last'.status = 404
                /\ books' = books
                /\ loans' = loans]_vars

\* C14: with requests served one at a time, every Loan in the store
\* references a Book that exists, also after a delete addressed to a Book
\* that has an active Loan.
C14_LoansReferenceBooks ==
    \A l \in DOMAIN loans : loans[l].book_id \in DOMAIN books

\* two Books were borrowed and never returned; one of them has just been
\* deleted, its Loan went with it and the other Loan is still there
C14_Witness ==
    /\ last.op = "delete_book" /\ last.status = 200
    /\ loanSeq = 2 /\ returned = {}
    /\ Cardinality(DOMAIN loans) = 1
    /\ Cardinality(DOMAIN books) = 1

\* C15: a Loan appears only in a step serving a successful borrow (with the
\* Book and the clock reading of that request), disappears only in a step
\* serving the successful return of that Loan, and while it stays in the
\* store its book reference, borrower_name and borrowed_at do not change;
\* create, get, update and delete of a Book add, remove and modify no Loan.
C15_LoanLifecycle ==
    [][/\ \A l \in DOMAIN loans' \ DOMAIN loans :
            /\ last'.op = "borrow_book" /\ last'.status = 201 /\ last'.loan_id = l
            /\ loans'[l].book_id = last'.book_id
            /\ loans'[l].borrowed_at = now
            /\ \E n \in Names : borrow_book(last'.book_id, n) /\ loans'[l].borrower_name = n
       /\ \A l \in DOMAIN loans \ DOMAIN loans' :
            last'.op = "return_book" /\ last'.status = 200 /\ return_book(l)
       /\ \A l \in DOMAIN loans \cap DOMAIN loans' : loans'[l] = loans[l]]_vars

\* C15 as amended: as C15, but a Loan also disappears in the step serving
\* the successful delete of the Book it references.
C15_LoanLifecycleOrCascade ==
    [][/\ \A l \in DOMAIN loans' \ DOMAIN loans :
            /\ last'.op = "borrow_book" /\ last'.status = 201 /\ last'.loan_id = l
            /\ loans'[l].book_id = last'.book_id
            /\ loans'[l].borrowed_at = now
            /\ \E n \in Names : borrow_book(last'.book_id, n) /\ loans'[l].borrower_name = n
       /\ \A l \in DOMAIN loans \ DOMAIN loans' :
            \/ last'.op = "return_book" /\ last'.status = 200 /\ return_book(l)
            \/ last'.op = "delete_book" /\ last'.status = 200 /\ delete_book(loans[l].book_id)
       /\ \A l \in DOMAIN loans \cap DOMAIN loans' : loans'[l] = loans[l]]_vars

\* two Loans were created and none returned; the delete of one Book took
\* its Loan along, and the other Loan still carries the earlier clock reading
C15_Witness ==
    /\ last.op = "delete_book" /\ last.status = 200
    /\ loanSeq = 2 /\ returned = {}
    /\ \E l \in DOMAIN loans : DOMAIN loans = {l} /\ loans[l].borrowed_at < now

\* C16: a list request whose page is below 1, or whose per_page is outside
\* 1..100 (0 and 101 among them), is answered 400; every request that
\* carries a page of at least 1 or none, a per_page within 1..100 (100
\* among them) or none, and no other parameter but a status filter is
\* answered 200.
C16_PaginationValidated ==
    last.op = "get_books" =>
        LET r == last.request
            pageBad == r.page # NoInt /\ r.page < 1
            perPageBad == r.per_page # NoInt /\ (r.per_page < 1 \/ r.per_page > 100)
        IN  /\ (pageBad \/ perPageBad) => last.status = 400
            /\ (~pageBad /\ ~perPageBad /\ r.search = None /\ r.author = None /\ r.sort_by = None)
                    => last.status = 200

\* per_page = 100 was accepted for a page past the end of a catalogue of two Books
C16_Witness ==
    /\ last.op = "get_books" /\ last.status = 200
    /\ last.request.per_page = 100 /\ last.request.page = 3
    /\ Cardinality(DOMAIN books) = 2
    /\ last.items = << >> /\ last.pagination.total_items = 2

\* The items of a list response are in the order of the field
InOrder(items, sort_by, descending) ==
    \A i, j \in 1 .. Len(items) :
        i < j => IF descending THEN KeyLeq(sort_by, items[j], items[i])
                               ELSE KeyLeq(sort_by, items[i], items[j])

\* C17: a list request is answered 200 when its sort field is one of title,
\* author, id, created_at or is not given, with the result ordered by that
\* field (by title, ascending, when neither field nor direction is given),
\* and 400 for any other field name.
C17_SortFieldsAccepted ==
    last.op = "get_books" =>
        LET r == last.request
            sort_by == IF r.sort_by = None THEN "title" ELSE r.sort_by
        IN  IF sort_by \in {"title", "author", "id", "created_at"}
            THEN /\ last.status = 200
                 /\ sort_by # "created_at" => InOrder(last.items, sort_by, r.sort_order = "desc")
            ELSE last.status = 400

\* C18: every list response with status 200 reports total_items = the number
\* of Books matching the filter, total_pages = the least number of pages of
\* per_page items that hold them (0 for none), has_next = page < total_pages
\* and has_prev = page > 1, for the page and per_page of the request.
C18_PaginationMetadata ==
    (last.op = "get_books" /\ last.status = 200) =>
        LET r == last.request
            pg == last.pagination
            page == IF r.page = NoInt THEN 1 ELSE r.page
            per_page == IF r.per_page = NoInt THEN 10 ELSE r.per_page
            n == Cardinality({b \in DOMAIN books : r.is_borrowed = "true" => books[b].is_borrowed})
        IN  /\ pg.page = page /\ pg.per_page = per_page
            /\ pg.total_items = n
            /\ pg.total_pages * per_page >= n
            /\ (pg.total_pages - 1) * per_page < n
            /\ pg.total_pages >= 0
            /\ pg.has_next = (page < pg.total_pages)
            /\ pg.has_prev = (page > 1)
            /\ (n = 0 /\ page = 1 /\ per_page = 10) =>
                    /\ pg.total_items = 0 /\ pg.total_pages = 0
                    /\ ~pg.has_next /\ ~pg.has_prev

\* the second of two pages of one borrowed Book each was listed with the
\* status filter
C18_Witness ==
    /\ last.op = "get_books" /\ last.status = 200
    /\ last.request.is_borrowed = "true"
    /\ last.request.page = 2 /\ last.request.per_page = 1
    /\ last.pagination.total_items = 2 /\ last.pagination.total_pages = 2
    /\ ~last.pagination.has_next /\ last.pagination.has_prev
    /\ Len(last.items) = 1

\* The Books a filter set selects according to the contract: each supplied
\* term is a substring, ignoring case, of the field(s) it applies to
WantedBy(r) ==
    {b \in DOMAIN books :
        /\ r.search # None =>
                \/ IsInfix(LowerSeq(Chars(r.search)), LowerSeq(Chars(books[b].title)))
                \/ IsInfix(LowerSeq(Chars(r.search)), LowerSeq(Chars(books[b].author)))
        /\ r.author # None =>
                IsInfix(LowerSeq(Chars(r.author)), LowerSeq(Chars(books[b].author)))
        /\ r.is_borrowed \in {"True", "true"} => books[b].is_borrowed
        /\ r.is_borrowed = "false" => ~books[b].is_borrowed}

\* C19: a list request that carries filters (search, author, is_borrowed
\* given as true or false, in any combination) is answered 200 with exactly
\* the Books that satisfy all supplied filters.
C19_FiltersSelectExactly ==
    (last.op = "get_books" /\ last.request.is_borrowed # "x") =>
        /\ last.status = 200
        /\ {last.items[i] : i \in 1 .. Len(last.items)} = WantedBy(last.request)

\* C20: the items of every list response with status 200 are in the order
\* of the sort field (title when none is given): non-decreasing when
\* sort_order is asc or not given, non-increasing when it is desc.
C20_ItemsInSortOrder ==
    (last.op = "get_books" /\ last.status = 200 /\ last.request.sort_order \in {None, "asc", "desc"}) =>
        LET r == last.request
            sort_by == IF r.sort_by = None THEN "title" ELSE r.sort_by
        IN  InOrder(last.items, sort_by, r.sort_order = "desc")

\* Books 1 and 2 were created in ascending title order and the listing by
\* title, descending, returned Book 2 before Book 1
C20_Witness ==
    /\ last.op = "get_books" /\ last.status = 200
    /\ last.request.sort_by = "title" /\ last.request.sort_order = "desc"
    /\ last.items = <<2, 1>>
    /\ books[1].title = "Ab" /\ books[2].title = "C"

\* items is the page-th run of per_page elements of rows: the elements at
\* positions (page-1)*per_page .. page*per_page-1, counted from 0
IsPage(items, rows, page, per_page) ==
    LET first == (page - 1) * per_page
        rest == IF Len(rows) > first THEN Len(rows) - first ELSE 0
    IN  /\ Len(items) = (IF rest < per_page THEN rest ELSE per_page)
        /\ \A i \in 1 .. Len(items) : items[i] = rows[first + i]

\* The sequences of the Books S without repetition, in the order of the field
SortedSequences(S, sort_by, descending) ==
    {rows \in [1 .. Cardinality(S) -> S] :
        /\ \A i, j \in 1 .. Cardinality(S) : i # j => rows[i] # rows[j]
        /\ InOrder(rows, sort_by, descending)}

\* C21: with the store unchanged, the pages of a valid list request are
\* runs of one sorted filtered sequence: two successive 200 responses to
\* requests that differ in the page only hold the elements at positions
\* (p-1)*per_page .. p*per_page-1 of the same sequence, so each has at most
\* per_page items, a page past the last is empty and the pages 1..total_pages
\* hold every matching Book exactly once.
C21_PagesOfOneSequence ==
    [][(/\ last.op = "get_books" /\ last.status = 200
        /\ last'.op = "get_books" /\ last'.status = 200
        /\ last'.request = [last.request EXCEPT !.page = last'.request.page]) =>
            LET r == last.request
                per_page == IF r.per_page = NoInt THEN 10 ELSE r.per_page
                sort_by == IF r.sort_by = None THEN "title" ELSE r.sort_by
            IN  \E rows \in SortedSequences(WantedBy(r), sort_by, r.sort_order = "desc") :
                    /\ IsPage(last.items, rows, last.pagination.page, per_page)
                    /\ IsPage(last'.items, rows, last'.pagination.page, per_page)]_vars

\* C22: list of books, list of loans and get of a Book are read-only:
\* whether the request is answered 200 or fails (400, 404, 500), every Book
\* and every Loan is the same after it as before.
C22_ReadsChangeNothing ==
    [][last'.op \in {"get_books", "get_loans", "get_book"} =>
            books' = books /\ loans' = loans]_vars

\* a get of an unknown Book failed while a flagged Book and its Loan existed
C22_Witness ==
    /\ last.op = "get_book" /\ last.status = 404
    /\ \E b \in DOMAIN books : books[b].is_borrowed
    /\ loans # << >>

\* The ids a list of loans shows
ListedIds(items) == {items[i].id : i \in 1 .. Len(items)}

\* C23: list of loans returns exactly the active Loans: every Loan a
\* successful borrow created and no return has removed appears in it once,
\* and no other (returned) Loan appears.
C23_LoanListIsActiveLoans ==
    last.op = "get_loans" =>
        /\ last.status = 200
        /\ ListedIds(last.items) = {e.id : e \in lent}
        /\ Len(last.items) = Cardinality(lent)

\* C23 with the cascade: list of loans returns exactly the Loans a
\* successful borrow created, no return has removed and whose Book has not
\* been deleted, each once, with the Book and borrower of the borrow.
C23_LoanListIsActiveLoansOfBooks ==
    last.op = "get_loans" =>
        LET kept == {e \in lent : e.book_id \in DOMAIN books}
        IN  /\ last.status = 200
            /\ {[id |-> last.items[i].id, book_id |-> last.items[i].book_id] :
                    i \in 1 .. Len(last.items)} = kept
            /\ Len(last.items) = Cardinality(kept)

\* of two Loans one was returned, and the list shows the other alone
C23_Witness ==
    /\ last.op = "get_loans" /\ last.status = 200
    /\ Len(last.items) = 1
    /\ returned # {}
    /\ ListedIds(last.items) \cap returned = {}

\* C24: every book and loan endpoint requires a bearer token: a request
\* that carries no valid token (none, an expired or a forged one) is
\* answered 401 or 422, returns no Book or Loan and creates, updates and
\* deletes none.
C24_NoTokenNoAccess ==
    [][\A tk \in Tokens \ {ValidToken} :
         (\/ \E a \in AuthAuthors : post_books(tk, a)
          \/ \E b \in 1 .. MaxId :
                \/ get_books_id(tk, b) \/ put_books_id(tk, b) \/ delete_books_id(tk, b)
                \/ post_loans(tk, b) \/ delete_loans_id(tk, b)
          \/ get_loans_all(tk)) =>
                /\ last'.status \in {401, 422}
                /\ books' = books
                /\ loans' = loans]_vars

\* C25: Book identifiers are unique and immutable: a successful create
\* assigns an id no existing Book has and leaves every existing Book under
\* its id; no other operation brings in an id; ids leave only by a
\* successful delete, which brings in none - so no operation moves a Book
\* from one id to another and no two Books ever share one.
C25_BookIdsUniqueAndFixed ==
    [][LET created == last'.op = "add_book" /\ last'.status = 201
       IN  /\ created =>
                /\ last'.book_id \notin DOMAIN books
                /\ DOMAIN books' = DOMAIN books \cup {last'.book_id}
                /\ \A b \in DOMAIN books : books'[b] = books[b]
           /\ ~created => DOMAIN books' \subseteq DOMAIN books
           /\ DOMAIN books' # DOMAIN books /\ ~created =>
                /\ last'.op = "delete_book" /\ last'.status = 200
                /\ Cardinality(DOMAIN books \ DOMAIN books') = 1]_vars

\* a second Book was created beside an updated first one and got another id
C25_Witness ==
    /\ last.op = "add_book" /\ last.status = 201 /\ last.book_id = 2
    /\ 1 \in DOMAIN books /\ books[1].title = ""
    /\ Cardinality(DOMAIN books) = 2

\* C26: on the generated OpenAPI server GET /books is answered 200, and so
\* is POST /books with a JSON body that carries author, id and title,
\* whatever requests were served before.
C26_StubsAnswer200 ==
    /\ last.op = "books_get" => last.status = 200
    /\ (last.op = "books_post" /\ Conforms(last.body)) => last.status = 200

\* the test's body was posted and answered 200
C26_Witness ==
    /\ last.op = "books_post" /\ last.status = 200
    /\ last.body = [author |-> "author", id |-> 0, title |-> "title"]


\* every request has run to its answer: none is between two store calls and
\* none died on the way
AllCompleted == \A r \in Reqs : req[r].pc \in {"idle", "done"}

\* C27: under any interleaving of concurrent borrow and return requests,
\* once all requests have completed a Book's is_borrowed is true if and only
\* if exactly one Loan references it; no Book is left borrowed without a
\* Loan to return.
C27_SettledFlagIffOneLoan ==
    AllCompleted =>
        \A b \in DOMAIN books : books[b].is_borrowed <=> Cardinality(LoansOf(loans, b)) = 1


\* C28: in the state-field version a Book's state is always 'available' or
\* 'borrowed' and starts as 'available'; the state changes only by a
\* successful borrow (from 'available') or a successful return (from
\* 'borrowed') of that Book, so the two strictly alternate starting with a
\* borrow; a borrow of a borrowed Book and a return of an available Book
\* answer 400 and leave the Books unchanged.
C28_StateAlternates ==
    [][/\ \A b \in DOMAIN books' : books'[b].state \in {"available", "borrowed"}
       /\ \A b \in DOMAIN books' \ DOMAIN books : books'[b].state = "available"
       /\ \A b \in DOMAIN books \cap DOMAIN books' :
            /\ (books[b].state = "available" /\ books'[b].state = "borrowed") =>
                    borrow_book_state(b) /\ last'.status = 200
            /\ (books[b].state = "borrowed" /\ books'[b].state = "available") =>
                    return_book_state(b) /\ last'.status = 200
       /\ \A b \in DOMAIN books :
            /\ borrow_book_state(b) =>
                    IF books[b].state = "available"
                    THEN last'.status = 200 /\ books' = [books EXCEPT ![b].state = "borrowed"]
                    ELSE last'.status = 400 /\ books' = books
            /\ return_book_state(b) =>
                    IF books[b].state = "borrowed"
                    THEN last'.status = 200 /\ books' = [books EXCEPT ![b].state = "available"]
                    ELSE last'.status = 400 /\ books' = books]_vars

\* a borrow of a Book that is already borrowed has just been refused
C28_Witness ==
    /\ version = "v1"
    /\ last.op = "borrow_book" /\ last.status = 400
    /\ \E b \in DOMAIN books : books[b].state = "borrowed"
    /\ \E b \in DOMAIN books : books[b].state = "available"


\* the Books differ from bks in the available column of Book b alone
OnlyAvailableSet(bks, b, value) == books' = [bks EXCEPT ![b].available = value]

\* C29: in the form-based versions a borrow of a missing or unavailable
\* Book and a return of a missing or available Book change nothing in the
\* store and answer with the redirect; a borrow sets available to false
\* only when it was true and a return sets it to true only when it was
\* false, each changing nothing else, so that a return after a borrow
\* restores the Books as they were.
C29_FormBorrowReturn ==
    [][\A b \in Ids :
         /\ borrow_book_form(b) =>
                /\ last'.status = 302
                /\ IF b \in DOMAIN books /\ books[b].available
                   THEN OnlyAvailableSet(books, b, FALSE) /\ books' # books
                   ELSE books' = books
         /\ return_book_form(b) =>
                /\ last'.status = 302
                /\ IF b \in DOMAIN books /\ ~books[b].available
                   THEN OnlyAvailableSet(books, b, TRUE) /\ books' # books
                   ELSE books' = books]_vars

\* a return has just been answered while one Book is available and another
\* is not
C29_Witness ==
    /\ version = "app"
    /\ last.op = "return_book" /\ last.status = 302
    /\ \E b \in DOMAIN books : books[b].available
    /\ \E b \in DOMAIN books : ~books[b].available


\* C30: usernames are unique after any sequence of register requests; a
\* register of a username that exists answers 400, adds no user and changes
\* no stored password (a user is added only by a register answering 201,
\* with the hash of the password given); a login answers 200 when the
\* username is registered and the password is the one given at its
\* registration, and 401 otherwise.
C30_UniqueUsersAndLogin ==
    [][LET names == {None, "", "ann", "bob"}
           passwords == {None, "", "pw", "other"}
       IN  /\ \A i, j \in DOMAIN users' : users'[i].username = users'[j].username => i = j
           /\ \A i \in DOMAIN users : i \in DOMAIN users' /\ users'[i] = users[i]
           /\ \A u \in names, p \in passwords :
                /\ register(u, p) =>
                      IF \E i \in DOMAIN users : users[i].username = u
                      THEN last'.status = 400 /\ users' = users
                      ELSE users' # users =>
                              /\ last'.status = 201
                              /\ users' = Append(users, [username |-> u,
                                             password_hash |-> generate_password_hash(p)])
                /\ login(u, p) =>
                      IF \E i \in DOMAIN users :
                            /\ users[i].username = u
                            /\ check_password_hash(users[i].password_hash, p)
                      THEN last'.status = 200
                      ELSE last'.status = 401]_vars

====
